---- MODULE Spec2Model ----
(***************************************************************************)
(* Proof Insight front end (src/src/App.jsx): the proof workflow of the    *)
(* App component.  The file holds two variants of the component, the plain *)
(* view (lines 1-207) and the styled view (lines 208-480); both share the  *)
(* handlers onFileChange, onSign, onSubmit and onVerify, and the styled    *)
(* view adds drag and drop and a remove-file button.                       *)
(*                                                                         *)
(* The React state of the component is the state of the model.  A handler  *)
(* runs to its first await in one step (JavaScript runs to completion) and *)
(* the values it read from its closure travel with the suspended call, so  *)
(* the continuation after an await works with the values of the render in  *)
(* which the handler was invoked.  A handler is invoked through its button *)
(* and a disabled button dispatches no click.                              *)
(***************************************************************************)
EXTENDS Bags, FiniteSets, Integers, Sequences, TLC

\* Bound on the number of handler invocations (file selections, drops and
\* clicks on Sign, Submit and Verify) in one session.
MaxOps == 4

\* Bound on the number of tokens the verification widget issues.
MaxTokens == 2

VARIABLES
  WORKER_URL,          \* import.meta.env.VITE_WORKER_URL ("" when unset)
  TURNSTILE_SITE_KEY,  \* import.meta.env.VITE_TURNSTILE_SITE_KEY ("" when unset)
  view,                \* which variant of App is mounted
  ethereum,            \* whether window.ethereum exists
  hash,                \* useState("")   fingerprint
  sig,                 \* useState("")   signature
  userAddr,            \* useState("")   signerAddress
  status,              \* useState("")   statusMessage
  turnstileToken,      \* useState("")   verificationToken
  registerResult,      \* useState(null) registrationRecord
  verifyResult,        \* useState(null) lookupRecord
  selectedFileName,    \* useState("")   (styled view)
  hashing,             \* bag of onFileChange calls suspended in sha256Hex
  signing,             \* bag of onSign calls suspended on the wallet, each
                       \* with (history) sig and userAddr before the click
  submitting,          \* bag of onSubmit calls suspended on the POST
  verifying,           \* bag of onVerify calls suspended on the GET
  posted,              \* history: bodies of the POST requests sent
  lookups,             \* history: hash parameters of the GET requests sent
  nAccountReqs,        \* history: eth_requestAccounts requests made
  nSignReqs,           \* history: signMessage requests made
  resets,              \* history: calls of turnstileRef.current.reset()
  tokenClears,         \* history: calls of setTurnstileToken("")
  issued,              \* history: tokens issued by the widget
  selectedFile,        \* history: the file of the last selection, or NULL
  lookupFor,           \* history: the hash verifyResult was asked for, or ""
  nOps,                \* history: handler invocations so far
  event                \* history: the handler (or continuation) that ran last

vars == <<WORKER_URL, TURNSTILE_SITE_KEY, view, ethereum, hash, sig, userAddr,
          status, turnstileToken, registerResult, verifyResult,
          selectedFileName, hashing, signing, submitting, verifying, posted,
          lookups, nAccountReqs, nSignReqs, resets, tokenClears, issued,
          selectedFile, lookupFor, nOps, event>>

env == <<WORKER_URL, TURNSTILE_SITE_KEY, view, ethereum>>

----------------------------------------------------------------------------
\* Values

\* The files a user can pick: the same bytes under two names, and two
\* contents under one name.
Files ==
  {[name |-> "a.pdf", bytes |-> "hello"],
   [name |-> "b.pdf", bytes |-> "hello"],
   [name |-> "b.pdf", bytes |-> "world"]}

\* Accounts the wallet can answer the handshake with.
Addresses == {"0xA1", "0xA2"}

\* null
NULL == [null |-> TRUE]

\* sha256Hex: "0x" followed by the hex digest of the bytes of the file; the
\* digest is a function of the bytes alone.
hexFromBuffer(bytes) ==
  CASE bytes = "hello" -> "2cf24dba"
    [] bytes = "world" -> "486ea462"

sha256Hex(file) == "0x" \o hexFromBuffer(file.bytes)

Digests == {sha256Hex(f) : f \in Files}

buildSignedMessage(fileHashHex) ==
  "Proof Insight: register file hash " \o fileHashHex

\* signer.signMessage(message) by the account `address`: the signature is
\* bound to the account and to the message.
signMessage(address, message) == "sig(" \o address \o "," \o message \o ")"

\* The token the widget passes to onSuccess at its n-th success.
TokenOf(n) == "tok" \o ToString(n)

\* The module-level checks without the one of TURNSTILE_SITE_KEY.
LoadedUrlOnly == WORKER_URL # ""

\* The module throws unless both values are set (lines 10-16, 216-217).
Loaded == WORKER_URL # "" /\ TURNSTILE_SITE_KEY # ""


----------------------------------------------------------------------------
\* Initial state: the module is evaluated (lines 6-16) and App is mounted with
\* the useState defaults (lines 35-43, 236-246).

Init ==
  /\ WORKER_URL \in {"", "https://worker.example/api"}
  /\ TURNSTILE_SITE_KEY \in {"", "sitekey"}
  /\ view \in {"plain", "styled"}
  /\ ethereum \in BOOLEAN
  /\ hash = ""
  /\ sig = ""
  /\ userAddr = ""
  /\ status = ""
  /\ turnstileToken = ""
  /\ registerResult = NULL
  /\ verifyResult = NULL
  /\ selectedFileName = ""
  /\ hashing = EmptyBag
  /\ signing = EmptyBag
  /\ submitting = EmptyBag
  /\ verifying = EmptyBag
  /\ posted = <<>>
  /\ lookups = <<>>
  /\ nAccountReqs = 0
  /\ nSignReqs = 0
  /\ resets = 0
  /\ tokenClears = 0
  /\ issued = 0
  /\ selectedFile = NULL
  /\ lookupFor = ""
  /\ nOps = 0
  /\ event = IF Loaded THEN "mount" ELSE "startup error"

\* One more handler may be invoked.
CanInvoke == Loaded /\ nOps < MaxOps

One(x) == SetToBag({x})

----------------------------------------------------------------------------
\* File selection (lines 45-62, 269-287)

\* The state updates onFileChange makes before it looks at the file.
FileChangeResets ==
  /\ hash' = ""
  /\ sig' = ""
  /\ registerResult' = NULL
  /\ verifyResult' = NULL
  /\ UNCHANGED <<userAddr, turnstileToken>>

\* onFileChange(e) with e.target.files = files (a sequence of 0 or 1 file),
\* called by the listener `by`.
onFileChange(files, by) ==
  /\ FileChangeResets
  /\ selectedFileName' =
       IF view = "styled"
         THEN (IF Len(files) > 0 THEN files[1].name ELSE "")
         ELSE selectedFileName
  /\ IF Len(files) > 0
       THEN /\ status' = "Computing SHA-256..."
            /\ hashing' = hashing (+) One([file |-> files[1]])
            /\ selectedFile' = files[1]
       ELSE /\ status' = ""
            /\ hashing' = hashing
            /\ selectedFile' = NULL
  /\ lookupFor' = ""
  /\ nOps' = nOps + 1
  /\ event' = by
  /\ UNCHANGED <<env, signing, submitting, verifying, posted, lookups,
                 nAccountReqs, nSignReqs, resets, tokenClears, issued>>

\* The change event of the file input: a file was picked, or the selection
\* was emptied.
FileInputChange ==
  /\ CanInvoke
  /\ \E files \in {<<>>} \cup {<<f>> : f \in Files} :
       onFileChange(files, "onFileChange")

\* onDrop (lines 258-267): with a dropped file it calls onFileChange; with
\* none it only clears the drag highlight, which is not part of this state.
onDrop ==
  /\ CanInvoke
  /\ view = "styled"
  /\ \E f \in Files : onFileChange(<<f>>, "onDrop")

\* The continuation of onFileChange after await sha256Hex(f): the digest is
\* stored, or the read or the digest failed.
HashComplete ==
  /\ Loaded
  /\ \E p \in BagToSet(hashing), ok \in BOOLEAN :
       /\ hashing' = hashing (-) One(p)
       /\ IF ok
            THEN /\ hash' = sha256Hex(p.file)
                 /\ status' = "Ready to sign"
            ELSE /\ hash' = hash
                 /\ status' = "Error: The requested file could not be read"
  /\ event' = "onFileChange.hashed"
  /\ UNCHANGED <<env, selectedFile, lookupFor, sig, userAddr, turnstileToken,
                 registerResult,
                 verifyResult, selectedFileName, signing, submitting,
                 verifying, posted, lookups, nAccountReqs, nSignReqs, resets,
                 tokenClears, issued, nOps>>

\* The remove-file button of the styled view (lines 396-410): shown while a
\* file name is selected.  Its handler clears the name and the hash and then
\* evaluates fileInputRef, which the styled App does not declare, so the
\* handler ends there with a ReferenceError; the two updates stay queued.
RemoveFile ==
  /\ Loaded
  /\ view = "styled"
  /\ selectedFileName # ""
  /\ selectedFileName' = ""
  /\ hash' = ""
  /\ selectedFile' = NULL
  /\ event' = "removeFile"
  /\ UNCHANGED <<env, lookupFor, sig, userAddr, status, turnstileToken,
                 registerResult,
                 verifyResult, hashing, signing, submitting, verifying,
                 posted, lookups, nAccountReqs, nSignReqs, resets,
                 tokenClears, issued, nOps>>

----------------------------------------------------------------------------
\* The verification widget (lines 166-170, 475): onSuccess stores the token.
\* The widget calls back after the first challenge, after a reset and when it
\* refreshes an expired token; every token it issues is a new one.
TurnstileSuccess ==
  /\ Loaded
  /\ issued < MaxTokens
  /\ issued' = issued + 1
  /\ turnstileToken' = TokenOf(issued + 1)
  /\ event' = "onSuccess"
  /\ UNCHANGED <<env, selectedFile, lookupFor, hash, sig, userAddr, status,
                 registerResult,
                 verifyResult, selectedFileName, hashing, signing, submitting,
                 verifying, posted, lookups, nAccountReqs, nSignReqs, resets,
                 tokenClears, nOps>>

----------------------------------------------------------------------------
\* Sign (lines 64-82, 289-306)

\* The Sign button without the !!sig term.
SignDisabledHashOnly == hash = ""

\* The Sign button disabled as soon as an account is shown as well.
SignDisabledOnceAddressed == hash = "" \/ sig # "" \/ userAddr # ""

\* disabled={!hash || !!sig} of the Sign button (lines 159, 421-427)
SignDisabled == hash = "" \/ sig # ""

\* The early returns of onSign: the status it stops with, or "" to go on.
SignRefusal ==
  IF hash = "" THEN "No hash to sign"
  ELSE IF ~ethereum THEN "MetaMask not found"
  ELSE ""

\* A click on Sign: onSign up to await provider.send("eth_requestAccounts").
onSign ==
  /\ CanInvoke
  /\ ~SignDisabled
  /\ IF SignRefusal # ""
       THEN /\ status' = SignRefusal
            /\ UNCHANGED <<signing, nAccountReqs>>
       ELSE /\ status' = "Requesting signature from wallet..."
            /\ signing' = signing (+)
                 One([hash |-> hash, stage |-> "accounts", address |-> "",
                      before |-> [sig |-> sig, userAddr |-> userAddr]])
            /\ nAccountReqs' = nAccountReqs + 1
  /\ nOps' = nOps + 1
  /\ event' = "onSign"
  /\ UNCHANGED <<env, selectedFile, lookupFor, hash, sig, userAddr,
                 turnstileToken, registerResult,
                 verifyResult, selectedFileName, hashing, submitting,
                 verifying, posted, lookups, nSignReqs, resets, tokenClears,
                 issued>>

\* The state updates onSign makes once the wallet has named the account
\* (lines 73-74, 297-298).
SignAccountKnown(address) ==
  /\ userAddr' = address
  /\ UNCHANGED sig

\* The continuation of onSign after the account handshake: the wallet named
\* an account and is asked to sign the message built from the hash of the
\* render onSign was clicked in, or the handshake failed.
SignAccounts ==
  /\ Loaded
  /\ \E p \in BagToSet(signing) :
       /\ p.stage = "accounts"
       /\ \/ \E a \in Addresses :
               /\ SignAccountKnown(a)
               /\ signing' = (signing (-) One(p)) (+)
                    One([p EXCEPT !.stage = "signMessage", !.address = a])
               /\ nSignReqs' = nSignReqs + 1
               /\ status' = status
               /\ event' = "onSign.account"
          \/ /\ signing' = signing (-) One(p)
             /\ status' = "Error: user rejected the connection"
             /\ event' = "onSign.failed"
             /\ UNCHANGED <<userAddr, sig, nSignReqs>>
  /\ UNCHANGED <<env, selectedFile, lookupFor, hash, turnstileToken,
                 registerResult, verifyResult,
                 selectedFileName, hashing, submitting, verifying, posted,
                 lookups, nAccountReqs, resets, tokenClears, issued, nOps>>

\* The continuation of onSign after await signer.signMessage(message).
SignComplete ==
  /\ Loaded
  /\ \E p \in BagToSet(signing) :
       /\ p.stage = "signMessage"
       /\ signing' = signing (-) One(p)
       /\ \/ /\ sig' = signMessage(p.address, buildSignedMessage(p.hash))
             /\ status' = "Signature obtained"
             /\ event' = "onSign.signed"
          \/ /\ sig' = sig
             /\ status' = "Error: user rejected the signature"
             /\ event' = "onSign.failed"
  /\ UNCHANGED <<env, selectedFile, lookupFor, hash, userAddr,
                 turnstileToken, registerResult,
                 verifyResult, selectedFileName, hashing, submitting,
                 verifying, posted, lookups, nAccountReqs, nSignReqs, resets,
                 tokenClears, issued, nOps>>

----------------------------------------------------------------------------
\* Submit (lines 84-116, 308-339)

\* disabled={!sig || !turnstileToken} of the Submit button (lines 160, 428-434)
SubmitDisabled == sig = "" \/ turnstileToken = ""

\* onSubmit with `if (!sig)` for its first guard.
SubmitRefusalNoHash ==
  IF sig = "" THEN "Hash and signature required"
  ELSE IF turnstileToken = "" THEN "Please complete the CAPTCHA"
  ELSE ""

\* The early returns of onSubmit: the status it stops with, or "" to go on.
SubmitRefusal ==
  IF hash = "" \/ sig = "" THEN "Hash and signature required"
  ELSE IF turnstileToken = "" THEN "Please complete the CAPTCHA"
  ELSE ""

\* The JSON body of the POST (lines 95-100, 319-324).
SubmitBody ==
  [fileHash |-> hash, signature |-> sig, user |-> userAddr,
   turnstileToken |-> turnstileToken]

\* The registration service's answer to a POST it accepts.
RegistrationOf(body) ==
  [txHash |-> "0xtx(" \o body.fileHash \o ")", blockNumber |-> 123]

\* A click on Submit: onSubmit up to await fetch(WORKER_URL, ...); fetch
\* sends the request before the handler suspends.
onSubmit ==
  /\ CanInvoke
  /\ ~SubmitDisabled
  /\ IF SubmitRefusal # ""
       THEN /\ status' = SubmitRefusal
            /\ UNCHANGED <<registerResult, posted, submitting>>
       ELSE /\ status' = "Sending to server..."
            /\ registerResult' = NULL
            /\ posted' = Append(posted, SubmitBody)
            /\ submitting' = submitting (+) One([body |-> SubmitBody])
  /\ nOps' = nOps + 1
  /\ event' = "onSubmit"
  /\ UNCHANGED <<env, selectedFile, lookupFor, hash, sig, userAddr,
                 turnstileToken, verifyResult,
                 selectedFileName, hashing, signing, verifying, lookups,
                 nAccountReqs, nSignReqs, resets, tokenClears, issued>>

\* The outcomes of the POST: a 2xx answer, a non-2xx answer, and a failure
\* of fetch or of res.json().
SubmitOutcomes == {"ok", "error", "network"}

\* The widget reset and the token clearing placed at the end of the try
\* block, after setStatus("Success! ..."), instead of in a finally block.
SubmitFinallyOnSuccess(outcome) ==
  IF outcome = "ok"
    THEN /\ resets' = resets + 1
         /\ tokenClears' = tokenClears + 1
         /\ turnstileToken' = ""
    ELSE UNCHANGED <<resets, tokenClears, turnstileToken>>

\* The finally block of onSubmit (lines 111-115, 335-338), which runs on
\* every way out of the try block.
SubmitFinally(outcome) ==
  /\ resets' = resets + 1
  /\ tokenClears' = tokenClears + 1
  /\ turnstileToken' = ""

\* onSubmit with the POST sent again, from the catch block, when fetch
\* failed.
SubmitCompleteRetry ==
  /\ Loaded
  /\ \E p \in BagToSet(submitting), outcome \in SubmitOutcomes :
       /\ CASE outcome = "ok" ->
                 /\ registerResult' = RegistrationOf(p.body)
                 /\ status' = "Success! Proof stored on-chain."
                 /\ submitting' = submitting (-) One(p)
                 /\ posted' = posted
                 /\ SubmitFinally(outcome)
            [] outcome = "error" ->
                 /\ registerResult' = registerResult
                 /\ status' = "Error: rate limited"
                 /\ submitting' = submitting (-) One(p)
                 /\ posted' = posted
                 /\ SubmitFinally(outcome)
            [] outcome = "network" ->
                 /\ registerResult' = registerResult
                 /\ status' = "Error: Failed to fetch"
                 /\ submitting' = submitting
                 /\ posted' = Append(posted, p.body)
                 /\ UNCHANGED <<resets, tokenClears, turnstileToken>>
       /\ event' = "onSubmit." \o outcome
  /\ UNCHANGED <<env, selectedFile, lookupFor, hash, sig, userAddr,
                 verifyResult, selectedFileName, hashing, signing, verifying,
                 lookups, nAccountReqs, nSignReqs, issued, nOps>>

\* The continuation of onSubmit after the service answered or fetch failed.
SubmitComplete ==
  /\ Loaded
  /\ \E p \in BagToSet(submitting), outcome \in SubmitOutcomes :
       /\ submitting' = submitting (-) One(p)
       /\ CASE outcome = "ok" ->
                 /\ registerResult' = RegistrationOf(p.body)
                 /\ status' = "Success! Proof stored on-chain."
            [] outcome = "error" ->
                 /\ registerResult' = registerResult
                 /\ status' = "Error: rate limited"
            [] outcome = "network" ->
                 /\ registerResult' = registerResult
                 /\ status' = "Error: Failed to fetch"
       /\ SubmitFinally(outcome)
       /\ event' = "onSubmit." \o outcome
  /\ UNCHANGED <<env, selectedFile, lookupFor, hash, sig, userAddr,
                 verifyResult, selectedFileName,
                 hashing, signing, verifying, posted, lookups, nAccountReqs,
                 nSignReqs, issued, nOps>>

----------------------------------------------------------------------------
\* Verify (lines 118-140, 341-360)

\* disabled={!hash} of the Verify button (lines 161, 435-441)
VerifyDisabled == hash = ""

\* onVerify with the guard of onSubmit, `if (!hash || !sig)`.
VerifyRefusalNeedsSig ==
  IF hash = "" \/ sig = "" THEN "Please select a file first" ELSE ""

\* The early return of onVerify: the status it stops with, or "" to go on.
VerifyRefusal == IF hash = "" THEN "Please select a file first" ELSE ""

\* onVerify clearing the result of onSubmit as well.
VerifyResetsBoth ==
  /\ verifyResult' = NULL
  /\ registerResult' = NULL
  /\ UNCHANGED turnstileToken

\* The state updates onVerify makes before it sends the lookup (lines
\* 120-121, 343-344).
VerifyResets ==
  /\ verifyResult' = NULL
  /\ UNCHANGED <<registerResult, turnstileToken>>

\* A click on Verify: onVerify up to await fetch(verifyUrl, ...).  WORKER_URL
\* is the address of the deployed worker (line 5), which new URL() accepts.
onVerify ==
  /\ CanInvoke
  /\ ~VerifyDisabled
  /\ IF VerifyRefusal # ""
       THEN /\ status' = VerifyRefusal
            /\ UNCHANGED <<verifyResult, registerResult, turnstileToken,
                           lookups, verifying, lookupFor>>
       ELSE /\ status' = "Verifying proof from blockchain..."
            /\ VerifyResets
            /\ lookupFor' = ""
            /\ lookups' = Append(lookups, hash)
            /\ verifying' = verifying (+) One([hash |-> hash])
  /\ nOps' = nOps + 1
  /\ event' = "onVerify"
  /\ UNCHANGED <<env, selectedFile, hash, sig, userAddr, selectedFileName,
                 hashing,
                 signing, submitting, posted, nAccountReqs, nSignReqs,
                 resets, tokenClears, issued>>

\* The outcomes of the GET: a record found, none found, a non-2xx answer,
\* and a failure of fetch or of res.json().
VerifyOutcomes == {"found", "notfound", "error", "network"}

\* The continuation of onVerify after the service answered or fetch failed.
VerifyComplete ==
  /\ Loaded
  /\ \E p \in BagToSet(verifying), outcome \in VerifyOutcomes :
       /\ verifying' = verifying (-) One(p)
       /\ CASE outcome = "found" ->
                 /\ verifyResult' =
                      [found |-> TRUE, owner |-> "0xA1",
                       timestamp |-> 1700000000]
                 /\ lookupFor' = p.hash
                 /\ status' = "Verification complete: Proof found."
            [] outcome = "notfound" ->
                 /\ verifyResult' = [found |-> FALSE]
                 /\ lookupFor' = p.hash
                 /\ status' = "Verification complete: Proof not found."
            [] outcome = "error" ->
                 /\ UNCHANGED <<verifyResult, lookupFor>>
                 /\ status' = "Server error: internal error"
            [] outcome = "network" ->
                 /\ UNCHANGED <<verifyResult, lookupFor>>
                 /\ status' = "Network error: Failed to fetch"
       /\ event' = "onVerify." \o outcome
  /\ UNCHANGED <<env, selectedFile, hash, sig, userAddr, turnstileToken,
                 registerResult,
                 selectedFileName, hashing, signing, submitting, posted,
                 lookups, nAccountReqs, nSignReqs, resets, tokenClears,
                 issued, nOps>>

----------------------------------------------------------------------------
Next ==
  \/ FileInputChange
  \/ onDrop
  \/ HashComplete
  \/ RemoveFile
  \/ TurnstileSuccess
  \/ onSign
  \/ SignAccounts
  \/ SignComplete
  \/ onSubmit
  \/ SubmitComplete
  \/ onVerify
  \/ VerifyComplete

Spec == Init /\ [][Next]_vars

----------------------------------------------------------------------------
\* Properties

\* The listeners that call onFileChange.
FileSelectEvents == {"onFileChange", "onDrop"}

\* s is a signature some account made over the message built from h.
SignedOver(s, h) ==
  \E a \in Addresses : s = signMessage(a, buildSignedMessage(h))

\* A suspended call of the bag b ended or began in this step.
Fewer(b) == BagCardinality(b') < BagCardinality(b)
More(b) == BagCardinality(b') > BagCardinality(b)

\* C1: in the state right after a file selection is handled, fingerprint,
\* signature, signerAddress, registrationRecord and lookupRecord are all
\* empty or absent.
C1_SelectionClearsDerivedState ==
  event \in FileSelectEvents =>
    /\ hash = ""
    /\ sig = ""
    /\ userAddr = ""
    /\ registerResult = NULL
    /\ verifyResult = NULL

\* C2: in every state a non-empty signature is a signature over the message
\* built from the current fingerprint.
C2_SignatureOverCurrentFingerprint ==
  sig # "" => (hash # "" /\ SignedOver(sig, hash))

\* C3: a Submit invoked while fingerprint, signature or token is empty sends
\* no request and leaves fingerprint, signature, signerAddress, token and
\* registrationRecord as they were.
C3_SubmitRejectedLocally ==
  [][(event' = "onSubmit" /\ (hash = "" \/ sig = "" \/ turnstileToken = ""))
       => /\ posted' = posted
          /\ submitting' = submitting
          /\ UNCHANGED <<hash, sig, userAddr, turnstileToken,
                         registerResult>>]_vars

\* A Submit was clicked without a fingerprint and was refused.
C3_Witness ==
  /\ event = "onSubmit"
  /\ status = "Hash and signature required"
  /\ hash = ""
  /\ sig # ""
  /\ turnstileToken # ""
  /\ posted = <<>>

\* C4: every Submit that was sent ends, whatever its outcome, with the token
\* empty and the widget reset, and the token is cleared once per such Submit
\* and by nothing else.
C4_SubmitConsumesToken ==
  /\ [](tokenClears = Len(posted) - BagCardinality(submitting))
  /\ [](resets = tokenClears)
  /\ [][IF Fewer(submitting)
          THEN /\ turnstileToken' = ""
               /\ resets' = resets + 1
               /\ tokenClears' = tokenClears + 1
          ELSE /\ resets' = resets
               /\ tokenClears' = tokenClears]_vars

\* A Submit the service refused has ended while the widget had already
\* delivered a second token.
C4_Witness ==
  /\ event = "onSubmit.error"
  /\ issued = 2
  /\ turnstileToken = ""
  /\ resets = 1
  /\ tokenClears = 1

\* C5: no token is carried by two Submit requests.
C5_TokenNeverResent ==
  \A i, j \in DOMAIN posted :
    i # j => posted[i].turnstileToken # posted[j].turnstileToken

\* C6: Verify needs the fingerprint and nothing else: with a fingerprint a
\* click on Verify is accepted and sends one lookup for it, whatever
\* signature, signerAddress and token are, and without a fingerprint no
\* lookup is sent.
C6_VerifyNeedsOnlyFingerprint ==
  /\ []((hash # "" /\ CanInvoke) =>
          ENABLED (onVerify /\ lookups' = Append(lookups, hash)))
  /\ [][event' = "onVerify" =>
          lookups' = IF hash # "" THEN Append(lookups, hash) ELSE lookups]_vars
  /\ [][hash = "" => lookups' = lookups]_vars

\* A lookup was sent with no signature, no signer address and no token.
C6_Witness ==
  /\ event = "onVerify"
  /\ hash # ""
  /\ sig = ""
  /\ userAddr = ""
  /\ turnstileToken = ""
  /\ lookups = <<hash>>

\* C7: Verify, when it is invoked and when it completes, leaves fingerprint,
\* signature, signerAddress, token and registrationRecord unchanged.
C7_VerifyFrame ==
  [][(event' = "onVerify" \/ More(verifying) \/ Fewer(verifying))
       => UNCHANGED <<hash, sig, userAddr, turnstileToken,
                      registerResult>>]_vars

\* A Verify has completed in a session that holds a registration record.
C7_Witness ==
  /\ event \in {"onVerify." \o o : o \in VerifyOutcomes}
  /\ hash # ""
  /\ sig # ""
  /\ userAddr # ""
  /\ registerResult # NULL

\* C8: signerAddress is non-empty only if signature is non-empty.
C8_AddressOnlyWithSignature == userAddr # "" => sig # ""

\* C9: while the signature is non-empty no Sign is accepted and no new
\* handshake with the wallet is begun.
C9_NoSignWhileSigned ==
  [][sig # "" => (event' # "onSign" /\ nAccountReqs' = nAccountReqs)]_vars

\* The session holds a signature over the current fingerprint, a wallet is
\* present and one more click would be handled.
C9_Witness ==
  /\ hash # ""
  /\ sig # ""
  /\ SignedOver(sig, hash)
  /\ ethereum
  /\ CanInvoke

\* C10: at most one Sign and at most one Submit are outstanding at any time.
C10_OneOutstandingPerStage ==
  /\ BagCardinality(signing) <= 1
  /\ BagCardinality(submitting) <= 1

\* The suspended calls of the bag b that ended in this step.
Ended(b) == {p \in BagToSet(b) : CopiesIn(p, b') < CopiesIn(p, b)}

\* C11: a Sign attempt that fails (no wallet, handshake refused, signature
\* refused) leaves signature and signerAddress as they were before the
\* attempt.
C11_FailedSignLeavesSignerState ==
  [][/\ (event' = "onSign.failed" =>
           \A p \in Ended(signing) :
             /\ sig' = p.before.sig
             /\ userAddr' = p.before.userAddr)
     /\ ((event' = "onSign" /\ ~More(signing)) =>
           UNCHANGED <<sig, userAddr>>)]_vars

\* The statuses onSubmit ends with when the POST fails.
SubmitErrorStatuses == {"Error: rate limited", "Error: Failed to fetch"}

\* C12: right after a Submit ended with a service failure or a transport
\* failure, registrationRecord is absent, the status carries the error and
\* the token is empty.
C12_FailedSubmitLeavesNoRecord ==
  event \in {"onSubmit.error", "onSubmit.network"} =>
    /\ registerResult = NULL
    /\ status \in SubmitErrorStatuses
    /\ turnstileToken = ""

\* C13: in every state a non-empty fingerprint is the digest of the file
\* selected last.
C13_FingerprintOfSelectedFile ==
  hash # "" => (selectedFile # NULL /\ hash = sha256Hex(selectedFile))

\* The states right after a Sign, a Submit and a Verify failed.
SignFailed ==
  \/ event = "onSign.failed"
  \/ (event = "onSign" /\ status = "MetaMask not found")
SubmitFailed == event \in {"onSubmit.error", "onSubmit.network"}
VerifyFailed == event \in {"onVerify.error", "onVerify.network"}
HashFailed ==
  /\ event = "onFileChange.hashed"
  /\ status = "Error: The requested file could not be read"

C15_NoAutomaticRetry ==
  /\ [](Len(posted) + Len(lookups) + nAccountReqs <= nOps)
  /\ [](nSignReqs <= nAccountReqs)
  /\ [][/\ posted' # posted =>
             (event' = "onSubmit" /\ Len(posted') = Len(posted) + 1)
        /\ lookups' # lookups =>
             (event' = "onVerify" /\ Len(lookups') = Len(lookups) + 1)
        /\ nAccountReqs' # nAccountReqs =>
             (event' = "onSign" /\ nAccountReqs' = nAccountReqs + 1)
        /\ nSignReqs' # nSignReqs =>
             (event' = "onSign.account" /\ nSignReqs' = nSignReqs + 1)]_vars

\* A Submit has ended with a transport failure and one POST was sent.
C15_Witness ==
  /\ event = "onSubmit.network"
  /\ Len(posted) = 1
  /\ submitting = EmptyBag

\* C16: with the endpoint URL or the site key unset nothing is ever mounted
\* and nothing ever happens: no state is held, no request is made and no
\* step is possible.
C16_NoWorkflowWithoutConfiguration ==
  (WORKER_URL = "" \/ TURNSTILE_SITE_KEY = "") =>
    /\ event = "startup error"
    /\ nOps = 0
    /\ issued = 0
    /\ <<hash, sig, userAddr, status, turnstileToken>> = <<"", "", "", "", "">>
    /\ registerResult = NULL /\ verifyResult = NULL /\ selectedFile = NULL
    /\ <<hashing, signing, submitting, verifying>> =
         <<EmptyBag, EmptyBag, EmptyBag, EmptyBag>>
    /\ posted = <<>> /\ lookups = <<>>
    /\ nAccountReqs = 0 /\ nSignReqs = 0
    /\ ~ENABLED Next

\* The endpoint URL is set and the site key is not.
C16_Witness ==
  /\ WORKER_URL # ""
  /\ TURNSTILE_SITE_KEY = ""
  /\ event = "startup error"

\* C17: every POST carries a signature made by the account `user` over the
\* message built from its fileHash.
C17_PostedTripleBelongsTogether ==
  \A i \in DOMAIN posted :
    posted[i].signature =
      signMessage(posted[i].user, buildSignedMessage(posted[i].fileHash))

\* C18: a registrationRecord or lookupRecord that is present was returned by
\* a request made for the current fingerprint.
C18_ResultsBelongToFingerprint ==
  /\ registerResult # NULL =>
       (hash # "" /\ registerResult = RegistrationOf([fileHash |-> hash]))
  /\ verifyResult # NULL => (hash # "" /\ lookupFor = hash)

\* The steps of onSubmit and of onVerify.
SubmitStep == event' \in {"onSubmit"} \cup {"onSubmit." \o o : o \in SubmitOutcomes}
VerifyStep == event' \in {"onVerify"} \cup {"onVerify." \o o : o \in VerifyOutcomes}

\* C19: while a Submit and a Verify are in flight together, neither writes
\* a field the other writes: a step of Verify leaves status,
\* registrationRecord and token alone, a step of Submit leaves status and
\* lookupRecord alone.
C19_NoFieldWrittenByBoth ==
  [][/\ (VerifyStep /\ submitting # EmptyBag) =>
          UNCHANGED <<status, registerResult, turnstileToken>>
     /\ (SubmitStep /\ verifying # EmptyBag) =>
          UNCHANGED <<status, verifyResult>>]_vars

====
